---- MODULE Spec2Model ----
(***************************************************************************)
(* Model of MigrationIQ: the migration dependency graph                    *)
(* (src/migrationiq/core/migration_graph.py), the risk scorer              *)
(* (core/risk_scoring.py), the branch comparator (core/branch_compare.py   *)
(* over git/git_utils.py) and the engine (core/engine.py).                 *)
(*                                                                         *)
(* Node ids are strings in the source.  They are modelled by the integers  *)
(* 1..MaxId, whose numeric order stands for the lexicographic order that   *)
(* sorted() applies to the ids.                                            *)
(***************************************************************************)
EXTENDS Integers, Sequences, FiniteSets, TLC

\* ---------------------------------------------------------------- bounds
MaxId == 3          \* number of distinct node ids
MaxEdges == 4       \* number of distinct edges a graph driven by add_edge holds
MaxRecords == 2     \* number of records a discovery run returns
MaxDeps == 1        \* number of dependencies one record declares
MaxFindings == 2    \* number of findings a scorer accumulates
MaxCustomWeight == 1 \* largest weight given to RiskScorer(weights)
MaxScore == 11      \* largest score handed to Severity.from_score (and 100)
MaxThreshold == 7   \* largest threshold handed to exceeds_threshold
MaxBehind == 2      \* largest number of commits git rev-list --count prints
MaxDiff == 2        \* number of lines git diff --name-only prints
MaxPieces == 4      \* number of pieces in a text handed to NonNullRule.evaluate
MaxRisk == 40       \* largest threshold handed to run_protect

Ids == 1..MaxId

\* the cap on loop iterations after which a traversal counts as not terminating
MaxSteps == 2 * (MaxId + MaxEdges + MaxRecords * MaxDeps) + 2

VARIABLES
    nodes,       \* MigrationGraph._nodes   : set of ids
    forward,     \* MigrationGraph._forward : dict id -> set of ids, as the
                 \*   sequence of its <<key, value>> items in insertion order
    reverse,     \* MigrationGraph._reverse : dict id -> set of ids; only .get()
                 \*   reads it, so an absent key and an empty set are the same
    migrations,  \* the records the engine's adapter discovered
    weights,     \* RiskScorer.weights : dict category -> int
    report,      \* RiskScorer._report.findings : list of RiskFinding
    git,         \* the repository and git tool GitClient runs its commands on
    ret          \* the last call: its name, arguments and what it returned

vars == <<nodes, forward, reverse, migrations, weights, report, git, ret>>

\* ------------------------------------------------------- python helpers

\* sorted(S) for a set of ids
RECURSIVE sorted(_)
sorted(S) ==
    IF S = {} THEN <<>>
    ELSE LET m == CHOOSE x \in S : \A y \in S : x <= y
         IN  <<m>> \o sorted(S \ {m})

Range(s) == {s[i] : i \in 1..Len(s)}

reversed(s) == [i \in 1..Len(s) |-> s[Len(s) + 1 - i]]

\* dict.keys() of an insertion-ordered dict
Keys(d) == {d[i][1] : i \in 1..Len(d)}

\* dict.get(k, set())
Get(d, k) ==
    IF k \in Keys(d)
    THEN d[CHOOSE i \in 1..Len(d) : d[i][1] = k][2]
    ELSE {}

\* mutant of DictAdd: every add makes a new item, as a list of pairs would
DictAdd_AlwaysAppend(d, k, v) == Append(d, <<k, {v}>>)

\* defaultdict(set)[k].add(v): a new key goes to the end of the dict
DictAdd(d, k, v) ==
    IF k \in Keys(d)
    THEN [i \in 1..Len(d) |-> IF d[i][1] = k THEN <<k, d[i][2] \cup {v}>> ELSE d[i]]
    ELSE Append(d, <<k, {v}>>)

\* -------------------------------------------------------- MigrationGraph

\* the graph object
self == [nodes |-> nodes, forward |-> forward, reverse |-> reverse]

\* MigrationGraph()
EmptyGraph == [nodes |-> {}, forward |-> <<>>, reverse |-> [i \in Ids |-> {}]]

add_node(g, node) == [g EXCEPT !.nodes = @ \cup {node}]

\* mutant of add_edge: the dependency is not put into the node set
add_edge_NoDependencyNode(g, node, dependency) ==
    [nodes   |-> g.nodes \cup {node},
     forward |-> DictAdd(g.forward, node, dependency),
     reverse |-> [g.reverse EXCEPT ![dependency] = @ \cup {node}]]

\* mutant of add_edge: the reverse edge is not recorded
add_edge_NoReverse(g, node, dependency) ==
    [nodes   |-> g.nodes \cup {node, dependency},
     forward |-> DictAdd(g.forward, node, dependency),
     reverse |-> g.reverse]

add_edge(g, node, dependency) ==
    [nodes   |-> g.nodes \cup {node, dependency},
     forward |-> DictAdd(g.forward, node, dependency),
     reverse |-> [g.reverse EXCEPT ![dependency] = @ \cup {node}]]

Edges(g) == {e \in Ids \X Ids : e[2] \in Get(g.forward, e[1])}

\* mutant of find_heads: the forward dict is read instead of the reverse one
find_heads_Forward(g) == sorted({n \in g.nodes : Get(g.forward, n) = {}})

find_heads(g) == sorted({n \in g.nodes : g.reverse[n] = {}})

find_roots(g) == sorted({n \in g.nodes : Get(g.forward, n) = {}})

\* mutant of find_orphans: "or" instead of "and"
find_orphans_Either(g) ==
    sorted({n \in g.nodes : Get(g.forward, n) = {} \/ g.reverse[n] = {}})

find_orphans(g) ==
    sorted({n \in g.nodes : Get(g.forward, n) = {} /\ g.reverse[n] = {}})

\* mutant of detect_multiple_heads: a single head is returned too
detect_multiple_heads_AnyHead(g) ==
    LET heads == find_heads(g)
    IN  IF Len(heads) > 0 THEN heads ELSE <<>>

detect_multiple_heads(g) ==
    LET heads == find_heads(g)
    IN  IF Len(heads) > 1 THEN heads ELSE <<>>

\* three-colour marking of detect_cycles
WHITE == 0
GRAY == 1
BLACK == 2

\* parent[n] of a node that no traversal step has reached yet
None == 0

\* the cycle rebuilt at a back edge node -> dep: walk the parent links from
\* node until dep (or the end of the chain) is reached
RECURSIVE WalkParents(_, _, _, _, _)
WalkParents(parent, cur, dep, cycle, fuel) ==
    IF cur = None \/ cur = dep THEN [cycle |-> cycle, done |-> TRUE]
    ELSE IF fuel = 0 THEN [cycle |-> cycle, done |-> FALSE]
    ELSE WalkParents(parent,
                     IF cur \in DOMAIN parent THEN parent[cur] ELSE None,
                     dep, Append(cycle, cur), fuel - 1)

ReconstructCycle(parent, node, dep) ==
    LET w == WalkParents(parent,
                         IF node \in DOMAIN parent THEN parent[node] ELSE None,
                         dep, <<dep, node>>, Cardinality(DOMAIN parent) + 1)
    IN  [cycle |-> reversed(w.cycle), done |-> w.done]

\* mutant of VisitDep: an edge from a node to itself is skipped
VisitDep_SkipSelf(s, node, dep) ==
    IF dep \notin DOMAIN s.color THEN [s EXCEPT !.raised = "KeyError"]
    ELSE IF dep = node THEN s
    ELSE IF s.color[dep] = GRAY
    THEN LET r == ReconstructCycle(s.parent, node, dep)
         IN  [s EXCEPT !.cycles = Append(@, r.cycle), !.done = r.done]
    ELSE IF s.color[dep] = WHITE
    THEN [s EXCEPT !.parent[dep] = node, !.stack = Append(@, <<dep, FALSE>>)]
    ELSE s

\* mutant of VisitDep: a finished (black) dependency counts as a cycle too
VisitDep_VisitedIsCycle(s, node, dep) ==
    IF dep \notin DOMAIN s.color THEN [s EXCEPT !.raised = "KeyError"]
    ELSE IF s.color[dep] # WHITE
    THEN LET r == ReconstructCycle(s.parent, node, dep)
         IN  [s EXCEPT !.cycles = Append(@, r.cycle), !.done = r.done]
    ELSE [s EXCEPT !.parent[dep] = node, !.stack = Append(@, <<dep, FALSE>>)]

\* the body of "for dep in sorted(self._forward.get(node, set()))"
VisitDep(s, node, dep) ==
    IF dep \notin DOMAIN s.color THEN [s EXCEPT !.raised = "KeyError"]
    ELSE IF s.color[dep] = GRAY
    THEN LET r == ReconstructCycle(s.parent, node, dep)
         IN  [s EXCEPT !.cycles = Append(@, r.cycle), !.done = r.done]
    ELSE IF s.color[dep] = WHITE
    THEN [s EXCEPT !.parent[dep] = node, !.stack = Append(@, <<dep, FALSE>>)]
    ELSE s

RECURSIVE VisitDeps(_, _, _)
VisitDeps(s, node, deps) ==
    IF deps = <<>> \/ s.raised # "none" \/ ~s.done THEN s
    ELSE VisitDeps(VisitDep(s, node, Head(deps)), node, Tail(deps))

\* one iteration of "while stack"
PopStack(g, s) ==
    LET top       == s.stack[Len(s.stack)]
        node      == top[1]
        processed == top[2]
        popped    == [s EXCEPT !.stack = SubSeq(@, 1, Len(@) - 1), !.steps = @ + 1]
    IN  IF processed THEN [popped EXCEPT !.color[node] = BLACK]
        ELSE IF popped.color[node] = GRAY THEN [popped EXCEPT !.color[node] = BLACK]
        ELSE VisitDeps([popped EXCEPT !.color[node] = GRAY,
                                      !.stack = Append(@, <<node, TRUE>>)],
                       node, sorted(Get(g.forward, node)))

RECURSIVE WhileStack(_, _)
WhileStack(g, s) ==
    IF s.stack = <<>> \/ s.raised # "none" \/ ~s.done THEN s
    ELSE IF s.steps >= MaxSteps THEN [s EXCEPT !.done = FALSE]
    ELSE WhileStack(g, PopStack(g, s))

\* "for start in sorted(self._nodes)"
RECURSIVE ForStart(_, _, _)
ForStart(g, s, starts) ==
    IF starts = <<>> \/ s.raised # "none" \/ ~s.done THEN s
    ELSE IF s.color[Head(starts)] # WHITE THEN ForStart(g, s, Tail(starts))
    ELSE ForStart(g, WhileStack(g, [s EXCEPT !.stack = <<<<Head(starts), FALSE>>>>]),
                  Tail(starts))

\* mutant of detect_cycles: the traversals start from the keys of the forward
\* dict in insertion order, then from the other nodes
detect_cycles_DictOrder(g) ==
    ForStart(g,
             [color  |-> [n \in g.nodes |-> WHITE],
              parent |-> [n \in g.nodes |-> None],
              stack  |-> <<>>,
              cycles |-> <<>>,
              raised |-> "none",
              done   |-> TRUE,
              steps  |-> 0],
             [i \in 1..Len(g.forward) |-> g.forward[i][1]]
                 \o sorted(g.nodes \ Keys(g.forward)))

\* detect_cycles: .cycles is the returned list, .raised the exception raised
\* ("none" when it returns), .done is FALSE when a loop did not come to an end
\* within MaxSteps iterations, .steps counts the iterations of "while stack"
detect_cycles(g) ==
    ForStart(g,
             [color  |-> [n \in g.nodes |-> WHITE],
              parent |-> [n \in g.nodes |-> None],
              stack  |-> <<>>,
              cycles |-> <<>>,
              raised |-> "none",
              done   |-> TRUE,
              steps  |-> 0],
             sorted(g.nodes))

\* mutant of Decrement: off by one, a dependent is queued while one of its
\* dependencies is still to come
RECURSIVE Decrement_OffByOne(_, _)
Decrement_OffByOne(t, dependents) ==
    IF dependents = <<>> \/ t.raised # "none" THEN t
    ELSE LET dependent == Head(dependents)
         IN  IF dependent \notin DOMAIN t.in_degree
             THEN [t EXCEPT !.raised = "KeyError"]
             ELSE LET d == t.in_degree[dependent] - 1
                      t1 == [t EXCEPT !.in_degree[dependent] = d]
                  IN  Decrement_OffByOne(IF d = 1
                                         THEN [t1 EXCEPT !.queue = Append(@, dependent)]
                                         ELSE t1,
                                         Tail(dependents))

\* the body of "while queue" in topological_sort
RECURSIVE Decrement(_, _)
Decrement(t, dependents) ==
    IF dependents = <<>> \/ t.raised # "none" THEN t
    ELSE LET dependent == Head(dependents)
         IN  IF dependent \notin DOMAIN t.in_degree
             THEN [t EXCEPT !.raised = "KeyError"]
             ELSE LET d == t.in_degree[dependent] - 1
                      t1 == [t EXCEPT !.in_degree[dependent] = d]
                  IN  Decrement(IF d = 0
                                THEN [t1 EXCEPT !.queue = Append(@, dependent)]
                                ELSE t1,
                                Tail(dependents))

RECURSIVE WhileQueue(_, _)
WhileQueue(g, t) ==
    IF t.queue = <<>> \/ t.raised # "none" THEN t
    ELSE LET node == Head(t.queue)
         IN  WhileQueue(g, Decrement([t EXCEPT !.queue = Tail(@),
                                               !.result = Append(@, node)],
                                     sorted(g.reverse[node])))

\* topological_sort: .result is the returned list, .raised the exception
topological_sort(g) ==
    LET in_degree == [n \in g.nodes |-> Cardinality(Get(g.forward, n))]
        t == WhileQueue(g, [in_degree |-> in_degree,
                            queue     |-> sorted({n \in g.nodes : in_degree[n] = 0}),
                            result    |-> <<>>,
                            raised    |-> "none"])
    IN  IF t.raised # "none" THEN [result |-> <<>>, raised |-> t.raised]
        ELSE IF Len(t.result) # Cardinality(g.nodes)
        THEN [result |-> <<>>, raised |-> "ValueError"]
        ELSE [result |-> t.result, raised |-> "none"]

\* missing_dependencies: the dict is walked in insertion order
RECURSIVE MissingOf(_, _, _)
MissingOf(g, node, deps) ==
    IF deps = <<>> THEN <<>>
    ELSE (IF Head(deps) \notin g.nodes THEN <<<<node, Head(deps)>>>> ELSE <<>>)
         \o MissingOf(g, node, Tail(deps))

RECURSIVE MissingFrom(_, _)
MissingFrom(g, i) ==
    IF i > Len(g.forward) THEN <<>>
    ELSE MissingOf(g, g.forward[i][1], sorted(g.forward[i][2])) \o MissingFrom(g, i + 1)

missing_dependencies(g) == MissingFrom(g, 1)

\* GraphIssue; the description is text derived from nodes and is left out
GraphIssue(issue_type, severity, nodes_) ==
    [issue_type |-> issue_type, severity |-> severity, nodes |-> nodes_]

\* mutant of analyze: the orphan issue is put first
analyze_OrphansFirst(g) ==
    LET heads   == detect_multiple_heads(g)
        dc      == detect_cycles(g)
        missing == missing_dependencies(g)
        orphans == find_orphans(g)
        issues  ==
            (IF orphans # <<>> THEN <<GraphIssue("orphan", "warning", orphans)>>
             ELSE <<>>)
            \o (IF heads # <<>> THEN <<GraphIssue("multiple_heads", "critical", heads)>>
                ELSE <<>>)
            \o [i \in 1..Len(dc.cycles) |-> GraphIssue("cycle", "critical", dc.cycles[i])]
            \o [i \in 1..Len(missing) |->
                    GraphIssue("missing_dependency", "critical", missing[i])]
    IN  IF dc.raised # "none" \/ ~dc.done
        THEN [issues |-> <<>>, raised |-> dc.raised, done |-> dc.done]
        ELSE [issues |-> issues, raised |-> "none", done |-> TRUE]

\* analyze: .issues is the returned list; an exception raised by
\* detect_cycles is not caught
analyze(g) ==
    LET heads   == detect_multiple_heads(g)
        dc      == detect_cycles(g)
        missing == missing_dependencies(g)
        orphans == find_orphans(g)
        issues  ==
            (IF heads # <<>> THEN <<GraphIssue("multiple_heads", "critical", heads)>>
             ELSE <<>>)
            \o [i \in 1..Len(dc.cycles) |-> GraphIssue("cycle", "critical", dc.cycles[i])]
            \o [i \in 1..Len(missing) |->
                    GraphIssue("missing_dependency", "critical", missing[i])]
            \o (IF orphans # <<>> THEN <<GraphIssue("orphan", "warning", orphans)>>
                ELSE <<>>)
    IN  IF dc.raised # "none" \/ ~dc.done
        THEN [issues |-> <<>>, raised |-> dc.raised, done |-> dc.done]
        ELSE [issues |-> issues, raised |-> "none", done |-> TRUE]

\* ---------------------------------------------------------------- engine

\* MigrationInfo, reduced to the fields _build_graph and the rules read;
\* sql_content has its default
MigrationInfo(migration_id, dependencies) ==
    [migration_id |-> migration_id, dependencies |-> dependencies,
     sql_content |-> <<>>]

RECURSIVE AddDeps(_, _, _)
AddDeps(g, migration_id, deps) ==
    IF deps = <<>> THEN g
    ELSE AddDeps(add_edge(g, migration_id, Head(deps)), migration_id, Tail(deps))

RECURSIVE BuildFrom(_, _)
BuildFrom(g, ms) ==
    IF ms = <<>> THEN g
    ELSE BuildFrom(AddDeps(add_node(g, Head(ms).migration_id),
                           Head(ms).migration_id, Head(ms).dependencies),
                   Tail(ms))

_build_graph(ms) == BuildFrom(EmptyGraph, ms)

\* CheckResult of run_check
run_check(ms) ==
    CHOOSE result \in
        {[migrations   |-> ms,
          graph_issues |-> a.issues,
          heads        |-> find_heads(graph),
          roots        |-> find_roots(graph),
          raised       |-> a.raised,
          done         |-> a.done] :
         graph \in {_build_graph(ms)}, a \in {analyze(_build_graph(ms))}} : TRUE

\* the dependency lists a migration file may declare
DepLists == UNION {[1..k -> Ids] : k \in 0..MaxDeps}

\* ---------------------------------------------------------- risk scoring

\* mutant of from_score: the bands end one score early
from_score_Strict(score) ==
    IF score < 3 THEN "LOW"
    ELSE IF score < 6 THEN "MEDIUM"
    ELSE IF score < 9 THEN "HIGH"
    ELSE "CRITICAL"

\* Severity.from_score
from_score(score) ==
    IF score <= 3 THEN "LOW"
    ELSE IF score <= 6 THEN "MEDIUM"
    ELSE IF score <= 9 THEN "HIGH"
    ELSE "CRITICAL"

DEFAULT_WEIGHTS ==
    [c \in {"drop_table", "drop_column", "non_null_without_default",
            "risky_type_change", "multiple_heads", "branch_behind_target",
            "large_table_alter"} |->
        CASE c = "drop_table"               -> 10
          [] c = "drop_column"              -> 8
          [] c = "non_null_without_default" -> 7
          [] c = "risky_type_change"        -> 6
          [] c = "multiple_heads"           -> 9
          [] c = "branch_behind_target"     -> 5
          [] c = "large_table_alter"        -> 6]

\* dict.get(k, default) of a dict held as a function
DictGet(d, k, default) == IF k \in DOMAIN d THEN d[k] ELSE default

\* {**a, **b}: the entries of b override those of a
DictMerge(a, b) ==
    [k \in DOMAIN a \cup DOMAIN b |-> IF k \in DOMAIN b THEN b[k] ELSE a[k]]

\* RiskFinding; description and file_path are free text and left out
RiskFinding(category, score) == [category |-> category, score |-> score]

\* mutant of RiskReport_add: the scorer's own table is not looked at
RiskReport_add_DefaultsOnly(findings, category, w_) ==
    Append(findings, RiskFinding(category, DictGet(DEFAULT_WEIGHTS, category, 5)))

\* RiskReport.add on the list of findings
RiskReport_add(findings, category, w_) ==
    LET w     == IF DOMAIN w_ = {} THEN DEFAULT_WEIGHTS ELSE w_
        score == DictGet(w, category, 5)
    IN  Append(findings, RiskFinding(category, score))

\* RiskReport.total_score
RECURSIVE total_score(_)
total_score(findings) ==
    IF findings = <<>> THEN 0
    ELSE Head(findings).score + total_score(Tail(findings))

\* RiskReport.severity
severity(findings) == from_score(total_score(findings))

\* the scorer object
scorer == [weights |-> weights, report |-> report]

\* RiskScorer(weights)
RiskScorer(custom) == [weights |-> DictMerge(DEFAULT_WEIGHTS, custom), report |-> <<>>]

add_finding(sc, category) ==
    [sc EXCEPT !.report = RiskReport_add(@, category, sc.weights)]

exceeds_threshold(sc, threshold) == total_score(sc.report) > threshold

\* mutant of reset: the scorer is made anew, its own weights are lost
reset_ForgetsWeights(sc) == RiskScorer(<<>>)

reset(sc) == [sc EXCEPT !.report = <<>>]

\* the categories handed to add_finding: the seven of the table and one more
Categories == DOMAIN DEFAULT_WEIGHTS \cup {"custom_issue"}

\* the weights handed to RiskScorer(weights)
CustomKeys == {"drop_table", "custom_issue"}
CustomWeights == UNION {[K -> 0..MaxCustomWeight] : K \in SUBSET CustomKeys}

\* ----------------------------------------------------------- git client
\* A path is the sequence of its tokens: names, the separators "/" and "\\",
\* and extensions.  PathTable lists the paths of a repository in the
\* lexicographic order of their strings; a diff names a path by its index, so
\* that the order of the indexes is the order sorted() gives the strings.
PathTable ==
    << <<"README", ".md">>,
       <<"alembic", "/", "versions", "/", "a1", ".py">>,
       <<"app", "/", "migrations", "/", "0001", ".py">>,
       <<"app", "/", "migrations", "/", "notes", ".txt">>,
       <<"app", "\\", "migrations", "\\", "0002", ".py">>,
       <<"src", "/", "migrations", ".py">>,
       <<"src", "/", "models", ".py">> >>

Paths == 1..Len(PathTable)

\* a blank line in the output of a command
Blank == 0

\* the lists of lines git diff --name-only prints
RECURSIVE SeqsUpTo(_, _)
SeqsUpTo(S, n) ==
    IF n = 0 THEN {<<>>}
    ELSE LET shorter == SeqsUpTo(S, n - 1)
         IN  shorter \cup {Append(s, x) : s \in {t \in shorter : Len(t) = n - 1}, x \in S}

DiffOutputs == SeqsUpTo(Paths \cup {Blank}, MaxDiff)

\* the text git rev-list --count prints: a number, or nothing that int()
\* accepts
CountText(n) == [int |-> TRUE, val |-> n]
NoText == [int |-> FALSE, val |-> 0]

\* what subprocess.run does with one command: it returns a CompletedProcess
\* ("ok": returncode 0, "nonzero": another returncode), raises TimeoutExpired
\* ("timeout") or raises FileNotFoundError ("notfound")
RunResult(outcome, stdout) == [outcome |-> outcome, stdout |-> stdout]

CurrentBranch == "feature/add-users"
TargetBranch == "origin/main"

\* the repository and the git tool as the client finds them: the result of
\* each command, and calls, the client's methods invoked by the last compare
GitState(fetch_, rev_parse, merge_base_, rev_list, diff_current, diff_target) ==
    [fetch |-> fetch_, rev_parse |-> rev_parse, merge_base |-> merge_base_,
     rev_list |-> rev_list, diff_current |-> diff_current,
     diff_target |-> diff_target, calls |-> <<>>]

OkFetch == RunResult("ok", "")
OkRevParse == RunResult("ok", CurrentBranch)
OkMergeBase == RunResult("ok", "abc123")
OkRevList == RunResult("ok", CountText(0))
OkDiff == RunResult("ok", <<>>)

DefaultGit == GitState(OkFetch, OkRevParse, OkMergeBase, OkRevList, OkDiff, OkDiff)

GitError(command, stderr, returncode) ==
    [command |-> command, stderr |-> stderr, returncode |-> returncode]

Returned(val) == [raised |-> "none", val |-> val]
Raised(error) == [raised |-> "GitError", val |-> error]

\* GitClient._run
_run(result, command, check) ==
    IF result.outcome = "notfound"
    THEN Raised(GitError(command, "Git is not installed or not in PATH", 127))
    ELSE IF result.outcome = "timeout"
    THEN Raised(GitError(command, "Command timed out after 30s", 124))
    ELSE IF check /\ result.outcome # "ok"
    THEN Raised(GitError(command, "fatal", 1))
    ELSE Returned(result.stdout)

fetch(g) ==
    LET r == _run(g.fetch, "fetch", TRUE)
    IN  IF r.raised # "none" THEN r ELSE Returned(None)

current_branch(g) == _run(g.rev_parse, "rev-parse", TRUE)

merge_base(g, ref_a, ref_b) ==
    LET r == _run(g.merge_base, "merge-base", TRUE)
    IN  IF r.raised = "GitError" THEN Returned("") ELSE r

\* the output of git diff --name-only ref_a ref_b in this repository
DiffOf(g, ref_b) == IF ref_b = TargetBranch THEN g.diff_target ELSE g.diff_current

diff_files(g, ref_a, ref_b) ==
    LET r == _run(DiffOf(g, ref_b), "diff", FALSE)
    IN  IF r.raised # "none" THEN r
        ELSE IF \A i \in 1..Len(r.val) : r.val[i] = Blank THEN Returned(<<>>)
        ELSE Returned(SelectSeq(r.val, LAMBDA line : line # Blank))

commits_between(g, base_ref, head_ref) ==
    LET r == _run(g.rev_list, "rev-list", FALSE)
    IN  IF r.raised # "none" THEN r
        ELSE IF r.val.int THEN Returned(r.val.val)
        ELSE Returned(0)

\* ------------------------------------------------------- branch compare
ComparisonReport(target_branch) ==
    [current_branch |-> "", target_branch |-> target_branch,
     is_behind |-> FALSE, commits_behind |-> 0,
     current_only |-> <<>>, target_only |-> <<>>,
     parallel_migrations |-> <<>>, suggestions |-> <<>>]

\* mutant of has_issues: migrations of the current branch alone count too
has_issues_AnyList(r) ==
    r.is_behind \/ r.parallel_migrations # <<>> \/ r.target_only # <<>>
        \/ r.current_only # <<>>

has_issues(r) ==
    r.is_behind \/ r.parallel_migrations # <<>> \/ r.target_only # <<>>

\* str.replace, str.split and str.endswith on the tokens of a path
replace(path, old, new) ==
    [i \in 1..Len(path) |-> IF path[i] = old THEN new ELSE path[i]]

RECURSIVE split(_, _)
split(path, sep) ==
    IF \A i \in 1..Len(path) : path[i] # sep THEN <<path>>
    ELSE LET k == CHOOSE i \in 1..Len(path) :
                      path[i] = sep /\ \A j \in 1..(i - 1) : path[j] # sep
         IN  <<SubSeq(path, 1, k - 1)>> \o split(SubSeq(path, k + 1, Len(path)), sep)

endswith(path, suffix) == Len(path) > 0 /\ path[Len(path)] = suffix

\* mutant of _is_migration_file: every python file counts
_is_migration_file_AnyPy(path) == endswith(path, ".py")

_is_migration_file(path) ==
    LET parts == split(replace(path, "\\", "/"), "/")
    IN  IF ~endswith(path, ".py") THEN FALSE
        ELSE IF <<"migrations">> \in Range(parts) THEN TRUE
        ELSE IF <<"versions">> \in Range(parts) THEN TRUE
        ELSE FALSE

\* the set of migration files in the list diff_files returned
MigrationFilesOf(all_files) ==
    {f \in Range(all_files) : _is_migration_file(PathTable[f])}

Suggestion(kind, n) == [kind |-> kind, n |-> n]

AppendIf(cond, s, e) == IF cond THEN Append(s, e) ELSE s

\* mutant of _generate_suggestions: the parallel warning comes before the
\* advice on the target's migrations
_generate_suggestions_Swapped(r) ==
    LET s1 == AppendIf(r.is_behind, r.suggestions, Suggestion("behind", r.commits_behind))
        s2 == AppendIf(r.parallel_migrations # <<>>, s1,
                       Suggestion("parallel", Len(r.parallel_migrations)))
        s3 == AppendIf(r.target_only # <<>>, s2,
                       Suggestion("target_only", Len(r.target_only)))
        s4 == AppendIf(r.current_only # <<>> /\ r.target_only # <<>>, s3,
                       Suggestion("merge_migration", 0))
    IN  [r EXCEPT !.suggestions = s4]

_generate_suggestions(r) ==
    LET s1 == AppendIf(r.is_behind, r.suggestions, Suggestion("behind", r.commits_behind))
        s2 == AppendIf(r.target_only # <<>>, s1,
                       Suggestion("target_only", Len(r.target_only)))
        s3 == AppendIf(r.parallel_migrations # <<>>, s2,
                       Suggestion("parallel", Len(r.parallel_migrations)))
        s4 == AppendIf(r.current_only # <<>> /\ r.target_only # <<>>, s3,
                       Suggestion("merge_migration", 0))
    IN  [r EXCEPT !.suggestions = s4]

\* what a call of compare comes to: the report it returns or the error it
\* raises, and the methods of the client it invoked
Outcome(r, calls) == [raised |-> r.raised, val |-> r.val, calls |-> calls]

\* mutant of NoMergeBase: the comparison goes on as if nothing were behind
NoMergeBase_Silent(r) == r

\* compare, lines 47-49: there is no merge base
NoMergeBase(r) ==
    [r EXCEPT !.suggestions = Append(@, Suggestion("no_merge_base", 0))]

\* compare, lines 50-59: there is a merge base
WithMergeBase(g, r, base, calls) ==
    LET behind == commits_between(g, base, r.target_branch)
        calls4 == Append(calls, "commits_between")
    IN  IF behind.raised # "none" THEN Outcome(behind, calls4)
        ELSE
        LET r1 == [r EXCEPT !.commits_behind = behind.val,
                            !.is_behind = behind.val > 0]
            cur == diff_files(g, base, r.current_branch)
            calls5 == Append(calls4, "diff_files")
        IN  IF cur.raised # "none" THEN Outcome(cur, calls5)
            ELSE
            LET tgt == diff_files(g, base, r.target_branch)
                calls6 == Append(calls5, "diff_files")
            IN  IF tgt.raised # "none" THEN Outcome(tgt, calls6)
                ELSE
                LET current_files == MigrationFilesOf(cur.val)
                    target_files == MigrationFilesOf(tgt.val)
                    r2 == [r1 EXCEPT
                              !.current_only = sorted(current_files \ target_files),
                              !.target_only = sorted(target_files \ current_files),
                              !.parallel_migrations = sorted(current_files \cap target_files)]
                IN  Outcome(Returned(_generate_suggestions(r2)), calls6)

\* BranchComparator.compare
compare(g, target_branch) ==
    LET report0 == ComparisonReport(target_branch)
        fetched == fetch(g)
    IN  IF fetched.raised # "none" THEN Outcome(fetched, <<"fetch">>)
        ELSE
        LET branch == current_branch(g)
        IN  IF branch.raised # "none"
            THEN Outcome(branch, <<"fetch", "current_branch">>)
            ELSE
            LET report1 == [report0 EXCEPT !.current_branch = branch.val]
                base == merge_base(g, report1.current_branch, target_branch)
                calls == <<"fetch", "current_branch", "merge_base">>
            IN  IF base.raised # "none" THEN Outcome(base, calls)
                ELSE IF base.val = ""
                THEN Outcome(Returned(NoMergeBase(report1)), calls)
                ELSE WithMergeBase(g, report1, base.val, calls)

\* the repositories a comparison is run in.  A command that is not reached,
\* because an earlier one raises or finds no merge base, has its default
\* result: what it would do makes no difference.
Failures == {RunResult("nonzero", ""), RunResult("timeout", ""), RunResult("notfound", "")}
Thrown == {RunResult("timeout", ""), RunResult("notfound", "")}
RevListResults ==
    {RunResult("ok", CountText(n)) : n \in 0..MaxBehind} \cup {RunResult("nonzero", NoText)}
DiffResults ==
    {RunResult("ok", out) : out \in DiffOutputs} \cup {RunResult("nonzero", <<>>)}

GitStates ==
    {GitState(f, OkRevParse, OkMergeBase, OkRevList, OkDiff, OkDiff) : f \in Failures}
    \cup {GitState(OkFetch, b, OkMergeBase, OkRevList, OkDiff, OkDiff) : b \in Failures}
    \cup {GitState(OkFetch, OkRevParse, m, OkRevList, OkDiff, OkDiff) :
              m \in Failures \cup {RunResult("ok", "")}}
    \cup {GitState(OkFetch, OkRevParse, OkMergeBase, l, OkDiff, OkDiff) : l \in Thrown}
    \cup {GitState(OkFetch, OkRevParse, OkMergeBase, l, c, OkDiff) :
              l \in RevListResults, c \in Thrown}
    \cup {GitState(OkFetch, OkRevParse, OkMergeBase, l, c, t) :
              l \in RevListResults, c \in DiffResults, t \in DiffResults \cup Thrown}

\* the reports a ComparisonReport(...) call constructs
ReportLists == {<<>>, <<3>>, <<2, 3>>}
Reports ==
    {[ComparisonReport(TargetBranch) EXCEPT
          !.is_behind = b, !.commits_behind = n, !.current_only = c,
          !.target_only = t, !.parallel_migrations = p] :
     b \in BOOLEAN, n \in {0, MaxBehind}, c \in ReportLists,
     t \in ReportLists, p \in ReportLists}

\* ---------------------------------------------------------- lint rules
\* The text of a migration file is the sequence of its statements; a
\* statement is named by the operation the rules' patterns find in it.
Contents ==
    {<<>>,
     <<"DROP TABLE">>,
     <<"ALTER COLUMN TYPE", "CREATE INDEX", "DROP COLUMN">>}

RuleViolation(rule_id, severity_, file_path) ==
    [rule_id |-> rule_id, severity |-> severity_, file_path |-> file_path]

\* for match in pattern.finditer(content): violations.append(...)
RECURSIVE Matches(_, _, _)
Matches(content, pattern, violation) ==
    IF content = <<>> THEN <<>>
    ELSE (IF Head(content) = pattern THEN <<violation>> ELSE <<>>)
             \o Matches(Tail(content), pattern, violation)

DropTableRule_evaluate(migration) ==
    Matches(migration.sql_content, "DROP TABLE",
            RuleViolation("drop-table", "CRITICAL", migration.migration_id))

DropColumnRule_evaluate(migration) ==
    Matches(migration.sql_content, "DROP COLUMN",
            RuleViolation("drop-column", "ERROR", migration.migration_id))

\* NonNullRule reads the text below the level of a statement: here the text
\* is the sequence of its pieces, each separated from the next by one blank.
\* len(piece)
Width(piece) ==
    CASE piece = "ADD COLUMN age INTEGER" -> 22
      [] piece = "NOT NULL"          -> 8
      [] piece = "DEFAULT 0"         -> 9
      [] piece = ";"                 -> 1
      [] piece = "\n"                -> 1
      [] piece = "AddField"          -> 8
      [] piece = "null=False"        -> 10
      [] piece = "default="          -> 8
      [] piece = "op.add_column"     -> 13
      [] piece = "nullable=False"    -> 14
      [] piece = "server_default="   -> 15
      [] piece = "FILLER"            -> 300
      [] piece = "DROP TABLE"        -> 10
      [] piece = "DROP COLUMN"       -> 11
      [] piece = "CREATE INDEX"      -> 12
      [] piece = "ALTER COLUMN TYPE" -> 17

\* match.start() of the piece at index i
RECURSIVE Offset(_, _)
Offset(content, i) ==
    IF i <= 1 THEN 0 ELSE Offset(content, i - 1) + Width(content[i - 1]) + 1

\* content[start:min(start + 300, len(content))] for the call site at index
\* i: the pieces that lie whole inside the slice
Context(content, i) ==
    SelectSeq([j \in 1..(Len(content) - i + 1) |->
                  IF Offset(content, i + j - 1) + Width(content[i + j - 1])
                         - Offset(content, i) <= 300
                  THEN content[i + j - 1] ELSE "cut"],
              LAMBDA piece : piece # "cut")

\* pattern.search(context), for a pattern that matches the pieces in found
Search(context, found) == \E j \in 1..Len(context) : context[j] \in found

\* content[:start].count("\n") + 1
LineNo(content, i) == Cardinality({k \in 1..(i - 1) : content[k] = "\n"}) + 1

\* [^;]* from index i: the index of the next ';', or one past the end
RECURSIVE StatementEnd(_, _)
StatementEnd(content, i) ==
    IF i > Len(content) \/ content[i] = ";" THEN i
    ELSE StatementEnd(content, i + 1)

\* the indexes where a match of _ADD_COL_NOT_NULL_SQL_RE starting at index i
\* may end: a NOT NULL of the same statement that no DEFAULT follows (the
\* pattern ignores case, so the word default of default= is a DEFAULT)
SqlMatchEnds(content, i) ==
    IF content[i] # "ADD COLUMN age INTEGER" THEN {}
    ELSE LET e == StatementEnd(content, i + 1)
         IN  {j \in (i + 1)..(e - 1) :
                 /\ content[j] = "NOT NULL"
                 /\ \A k \in (j + 1)..(e - 1) :
                        content[k] \notin {"DEFAULT 0", "default="}}

MaxOf(S) == CHOOSE j \in S : \A k \in S : k <= j

\* _ADD_COL_NOT_NULL_SQL_RE.finditer(content) from index i on: the index each
\* match starts at; [^;]* is greedy, and the search resumes after a match
RECURSIVE _ADD_COL_NOT_NULL_SQL_RE_finditer(_, _)
_ADD_COL_NOT_NULL_SQL_RE_finditer(content, i) ==
    IF i > Len(content) THEN <<>>
    ELSE IF SqlMatchEnds(content, i) = {}
         THEN _ADD_COL_NOT_NULL_SQL_RE_finditer(content, i + 1)
         ELSE <<i>> \o _ADD_COL_NOT_NULL_SQL_RE_finditer(
                           content, MaxOf(SqlMatchEnds(content, i)) + 1)

_make_violation(migration, line_no, message) ==
    RuleViolation("non-null-without-default", "ERROR", migration.migration_id)
        @@ [message |-> message, line_hint |-> line_no]

\* the loop of NonNullRule.evaluate over the SQL matches
RECURSIVE SqlViolations(_, _)
SqlViolations(migration, starts) ==
    IF starts = <<>> THEN <<>>
    ELSE <<_make_violation(migration, LineNo(migration.sql_content, Head(starts)),
                           "SQL ADD COLUMN NOT NULL without DEFAULT detected")>>
             \o SqlViolations(migration, Tail(starts))

\* NonNullRule._check_django_add_field, from index i on
RECURSIVE _check_django_add_field(_, _, _)
_check_django_add_field(content, migration, i) ==
    IF i > Len(content) THEN <<>>
    ELSE (IF /\ content[i] = "AddField"
             /\ Search(Context(content, i), {"null=False"})
             /\ ~Search(Context(content, i), {"default="})
          THEN <<_make_violation(migration, LineNo(content, i),
                     "Django AddField with null=False and no default value")>>
          ELSE <<>>)
             \o _check_django_add_field(content, migration, i + 1)

\* NonNullRule._check_alembic_add_column, from index i on
RECURSIVE _check_alembic_add_column(_, _, _)
_check_alembic_add_column(content, migration, i) ==
    IF i > Len(content) THEN <<>>
    ELSE (IF /\ content[i] = "op.add_column"
             /\ Search(Context(content, i), {"nullable=False"})
          THEN <<_make_violation(migration, LineNo(content, i),
                     "Alembic op.add_column() with nullable=False")>>
          ELSE <<>>)
             \o _check_alembic_add_column(content, migration, i + 1)

NonNullRule_evaluate(migration) ==
    LET content == migration.sql_content
    IN  SqlViolations(migration, _ADD_COL_NOT_NULL_SQL_RE_finditer(content, 1))
            \o _check_django_add_field(content, migration, 1)
            \o _check_alembic_add_column(content, migration, 1)

TypeChangeRule_evaluate(migration) ==
    Matches(migration.sql_content, "ALTER COLUMN TYPE",
            RuleViolation("type-change", "WARNING", migration.migration_id))

\* MultipleHeadsRule.evaluate
MultipleHeadsRule_evaluate(migration) == <<>>

\* mutant of evaluate_graph: one violation for each head
evaluate_graph_PerHead(graph) ==
    LET heads == detect_multiple_heads(graph)
    IN  [i \in 1..Len(heads) |->
            RuleViolation("multiple-heads", "CRITICAL", "<migration-graph>")]

\* MultipleHeadsRule.evaluate_graph
evaluate_graph(graph) ==
    LET heads == detect_multiple_heads(graph)
    IN  IF heads = <<>> THEN <<>>
        ELSE <<RuleViolation("multiple-heads", "CRITICAL", "<migration-graph>")>>

\* rule.evaluate(m) for the rule of that rule_id
evaluate(rule, migration) ==
    CASE rule = "drop-table"               -> DropTableRule_evaluate(migration)
      [] rule = "drop-column"              -> DropColumnRule_evaluate(migration)
      [] rule = "non-null-without-default" -> NonNullRule_evaluate(migration)
      [] rule = "type-change"              -> TypeChangeRule_evaluate(migration)
      [] rule = "multiple-heads"           -> MultipleHeadsRule_evaluate(migration)

\* _build_rules with the default RulesConfig
_build_rules ==
    <<"drop-table", "drop-column", "non-null-without-default", "type-change",
      "multiple-heads">>

\* ------------------------------------------- engine: lint, compare, ready
RECURSIVE ForMigrations(_, _)
ForMigrations(rule, ms) ==
    IF ms = <<>> THEN <<>>
    ELSE evaluate(rule, Head(ms)) \o ForMigrations(rule, Tail(ms))

RECURSIVE ForRules(_, _, _)
ForRules(rules, ms, graph) ==
    IF rules = <<>> THEN <<>>
    ELSE ForMigrations(Head(rules), ms)
             \o (IF Head(rules) = "multiple-heads" THEN evaluate_graph(graph) ELSE <<>>)
             \o ForRules(Tail(rules), ms, graph)

\* LintResult of run_lint
run_lint(ms) ==
    LET graph == _build_graph(ms)
    IN  [violations |-> ForRules(_build_rules, ms, graph)]

run_compare(g) == compare(g, TargetBranch)

category_map ==
    [rule_id \in {"drop-table", "drop-column", "non-null-without-default",
                  "type-change", "multiple-heads"} |->
        CASE rule_id = "drop-table"               -> "drop_table"
          [] rule_id = "drop-column"              -> "drop_column"
          [] rule_id = "non-null-without-default" -> "non_null_without_default"
          [] rule_id = "type-change"              -> "risky_type_change"
          [] rule_id = "multiple-heads"           -> "multiple_heads"]

RECURSIVE ScoreViolations(_, _)
ScoreViolations(sc, violations) ==
    IF violations = <<>> THEN sc
    ELSE ScoreViolations(
             add_finding(sc, DictGet(category_map, Head(violations).rule_id,
                                     Head(violations).rule_id)),
             Tail(violations))

\* mutant of ScoreIssues: the graph issues add nothing to the report
ScoreIssues_Skip(sc, issues) == sc

RECURSIVE ScoreIssues(_, _)
ScoreIssues(sc, issues) ==
    IF issues = <<>> THEN sc
    ELSE ScoreIssues(IF Head(issues).issue_type = "multiple_heads"
                     THEN add_finding(sc, "multiple_heads") ELSE sc,
                     Tail(issues))

\* run_ready, lines 178-193; compare_ is the list of the report run_compare
\* returned, the empty list standing for None
ReadyFrom(ms, compare_) ==
    CHOOSE result \in
        {LET sc1 == ScoreViolations(RiskScorer(<<>>), lint.violations)
             sc2 == ScoreIssues(sc1, check.graph_issues)
             sc3 == IF compare_ # <<>> /\ compare_[1].is_behind
                    THEN add_finding(sc2, "branch_behind_target") ELSE sc2
         IN  [raised |-> check.raised, done |-> check.done,
              val |-> [check |-> check, lint |-> lint, compare |-> compare_,
                       risk |-> sc3.report]] :
         check \in {run_check(ms)}, lint \in {run_lint(ms)}} : TRUE

\* mutant of run_ready: the error of run_compare is not caught
run_ready_Propagates(ms, g) ==
    CHOOSE result \in
        {IF r.raised # "none"
         THEN [raised |-> r.raised, done |-> TRUE, val |-> r.val, calls |-> r.calls]
         ELSE [raised |-> ready.raised, done |-> ready.done, val |-> ready.val,
               calls |-> r.calls] :
         r \in {run_compare(g)},
         ready \in {ReadyFrom(ms, IF run_compare(g).raised # "none" THEN <<>>
                                  ELSE <<run_compare(g).val>>)}} : TRUE

\* ReadyResult of run_ready; .calls are the methods of the git client that
\* run_compare invoked
run_ready(ms, g) ==
    CHOOSE result \in
        {[raised |-> ready.raised, done |-> ready.done, val |-> ready.val,
          calls |-> r.calls] :
         r \in {run_compare(g)},
         ready \in {ReadyFrom(ms, IF run_compare(g).raised # "none" THEN <<>>
                                  ELSE <<run_compare(g).val>>)}} : TRUE

\* CheckResult.exit_code
CheckResult_exit_code(check) ==
    IF \E i \in 1..Len(check.graph_issues) : check.graph_issues[i].severity = "critical"
    THEN 2
    ELSE IF \E i \in 1..Len(check.graph_issues) : check.graph_issues[i].severity = "warning"
    THEN 1
    ELSE 0

\* LintResult.exit_code
LintResult_exit_code(lint) ==
    IF \E i \in 1..Len(lint.violations) : lint.violations[i].severity = "CRITICAL"
    THEN 2
    ELSE IF \E i \in 1..Len(lint.violations) : lint.violations[i].severity = "ERROR"
    THEN 1
    ELSE 0

max(a, b) == IF a >= b THEN a ELSE b

\* ReadyResult.exit_code
ReadyResult_exit_code(result) ==
    max(CheckResult_exit_code(result.check), LintResult_exit_code(result.lint))

\* ProtectResult.exceeds_threshold
ProtectResult_exceeds_threshold(result) ==
    total_score(result.risk) > result.threshold

\* mutant of ProtectResult_exit_code: the threshold is not looked at
ProtectResult_exit_code_Base(result) == ReadyResult_exit_code(result)

\* ProtectResult.exit_code
ProtectResult_exit_code(result) ==
    LET base == ReadyResult_exit_code(result)
    IN  IF ProtectResult_exceeds_threshold(result) THEN max(base, 2) ELSE base

\* MigrationIQSettings.risk_threshold
risk_threshold == 7

\* ProtectResult of run_protect; threshold_ is the list of the threshold
\* given, the empty list standing for None
run_protect(ms, g, threshold_) ==
    CHOOSE result \in
        {[raised |-> ready.raised, done |-> ready.done, calls |-> ready.calls,
          val |-> [check |-> ready.val.check, lint |-> ready.val.lint,
                   compare |-> ready.val.compare, risk |-> ready.val.risk,
                   threshold |-> IF threshold_ # <<>> THEN threshold_[1]
                                 ELSE risk_threshold]] :
         ready \in {run_ready(ms, g)}} : TRUE

\* the thresholds handed to run_protect
ProtectThresholds == {<<>>, <<0>>, <<MaxRisk>>}

\* the repositories the engine is run in: up to date with the target; behind
\* it, with a migration of its own and one of the target's; without git
EngineGitStates ==
    {DefaultGit,
     GitState(OkFetch, OkRevParse, OkMergeBase, RunResult("ok", CountText(MaxBehind)),
              RunResult("ok", <<2>>), RunResult("ok", <<3>>)),
     GitState(RunResult("notfound", ""), RunResult("notfound", ""),
              RunResult("notfound", ""), RunResult("notfound", NoText),
              RunResult("notfound", <<>>), RunResult("notfound", <<>>))}

\* ---------------------------------------------------------------- values
\* op: the operation called last; args: its arguments; val: what it returned;
\* raised: the exception it raised, "none" when it returned
Ret(op, args, val, raised) == [op |-> op, args |-> args, val |-> val, raised |-> raised]

Init ==
    /\ nodes = {}
    /\ forward = <<>>
    /\ reverse = [i \in Ids |-> {}]
    /\ migrations = <<>>
    /\ weights = RiskScorer(<<>>).weights
    /\ report = <<>>
    /\ git = DefaultGit
    /\ ret = Ret("init", <<>>, <<>>, "none")

SetGraph(g) ==
    /\ nodes' = g.nodes
    /\ forward' = g.forward
    /\ reverse' = g.reverse

\* mutant of Query: the queries index the defaultdict instead of calling
\* .get(), which makes an empty entry for every node without one
Query_DefaultDict(op, val, raised) ==
    /\ ret' = Ret(op, <<>>, val, raised)
    /\ forward' = forward \o [i \in 1..Cardinality(nodes \ Keys(forward)) |->
                                <<sorted(nodes \ Keys(forward))[i], {}>>]
    /\ UNCHANGED <<nodes, reverse, migrations, weights, report, git>>

Query(op, val, raised) ==
    /\ ret' = Ret(op, <<>>, val, raised)
    /\ UNCHANGED <<nodes, forward, reverse, migrations, weights, report, git>>

AddNode ==
    \E node \in Ids :
        /\ SetGraph(add_node(self, node))
        /\ ret' = Ret("add_node", <<node>>, <<>>, "none")
        /\ UNCHANGED <<migrations, weights, report, git>>

AddEdge ==
    \E node \in Ids, dependency \in Ids :
        /\ <<node, dependency>> \in Edges(self) \/ Cardinality(Edges(self)) < MaxEdges
        /\ SetGraph(add_edge(self, node, dependency))
        /\ ret' = Ret("add_edge", <<node, dependency>>, <<>>, "none")
        /\ UNCHANGED <<migrations, weights, report, git>>

FindHeads == Query("find_heads", find_heads(self), "none")

FindRoots == Query("find_roots", find_roots(self), "none")

FindOrphans == Query("find_orphans", find_orphans(self), "none")

DetectMultipleHeads == Query("detect_multiple_heads", detect_multiple_heads(self), "none")

DetectCycles ==
    LET dc == detect_cycles(self)
    IN  Query("detect_cycles", [cycles |-> dc.cycles, done |-> dc.done, steps |-> dc.steps],
              dc.raised)

TopologicalSort ==
    LET t == topological_sort(self)
    IN  Query("topological_sort", t.result, t.raised)

MissingDependencies == Query("missing_dependencies", missing_dependencies(self), "none")

Analyze ==
    LET a == analyze(self)
    IN  Query("analyze", [issues |-> a.issues, done |-> a.done], a.raised)

Next ==
    \/ AddNode
    \/ AddEdge
    \/ FindHeads
    \/ FindRoots
    \/ FindOrphans
    \/ DetectMultipleHeads
    \/ DetectCycles
    \/ TopologicalSort
    \/ MissingDependencies
    \/ Analyze

Spec == Init /\ [][Next]_vars

\* the engine is constructed in a project without migration files
InitEngine ==
    /\ nodes = {}
    /\ forward = <<>>
    /\ reverse = [i \in Ids |-> {}]
    /\ migrations = <<>>
    /\ weights = RiskScorer(<<>>).weights
    /\ report = <<>>
    /\ git \in EngineGitStates
    /\ ret = Ret("init", <<>>, <<>>, "none")

\* A migration file is added to the project: from then on the adapter's
\* discover_migrations returns its record too.  Record ids are unique.
AddMigrationFile ==
    \E migration_id \in Ids, dependencies \in DepLists, sql_content \in Contents :
        /\ Len(migrations) < MaxRecords
        /\ \A i \in 1..Len(migrations) : migrations[i].migration_id # migration_id
        /\ migrations' = Append(migrations,
               [MigrationInfo(migration_id, dependencies) EXCEPT
                    !.sql_content = sql_content])
        /\ UNCHANGED <<nodes, forward, reverse, weights, report, git, ret>>

\* run_check: the records are discovered anew and the run builds its own graph
RunCheck ==
    \E r \in {run_check(migrations)} :
        /\ SetGraph(_build_graph(migrations))
        /\ ret' = Ret("run_check", <<>>,
                      [migrations |-> r.migrations, graph_issues |-> r.graph_issues,
                       heads |-> r.heads, roots |-> r.roots, done |-> r.done],
                      r.raised)
        /\ UNCHANGED <<migrations, weights, report, git>>

\* run_ready: its scorer is the run's own, the last graph built is run_lint's
RunReady ==
    \E r \in {run_ready(migrations, git)} :
        /\ SetGraph(_build_graph(migrations))
        /\ git' = [git EXCEPT !.calls = r.calls]
        /\ ret' = Ret("run_ready", <<>>, r.val, r.raised)
        /\ UNCHANGED <<migrations, weights, report>>

\* run_protect, and the exit code the protect command ends with
RunProtect ==
    \E threshold \in ProtectThresholds :
        \E r \in {run_protect(migrations, git, threshold)} :
            /\ SetGraph(_build_graph(migrations))
            /\ git' = [git EXCEPT !.calls = r.calls]
            /\ ret' = Ret("run_protect", <<threshold>>,
                          [result |-> r.val,
                           exceeds_threshold |-> ProtectResult_exceeds_threshold(r.val),
                           exit_code |-> ProtectResult_exit_code(r.val)],
                          r.raised)
            /\ UNCHANGED <<migrations, weights, report>>

NextEngine ==
    \/ AddMigrationFile
    \/ RunCheck
    \/ RunReady
    \/ RunProtect

SpecEngine == InitEngine /\ [][NextEngine]_vars

\* ------------------------------------------------------------ the linter

RunLint ==
    /\ SetGraph(_build_graph(migrations))
    /\ ret' = Ret("run_lint", <<>>, run_lint(migrations), "none")
    /\ UNCHANGED <<migrations, weights, report, git>>

\* the multiple-heads rule is handed a discovered record
Evaluate ==
    \E i \in 1..Len(migrations) :
        /\ ret' = Ret("evaluate", <<migrations[i]>>,
                      MultipleHeadsRule_evaluate(migrations[i]), "none")
        /\ UNCHANGED <<nodes, forward, reverse, migrations, weights, report, git>>

\* the multiple-heads rule is handed the graph of the discovered records
EvaluateGraph ==
    /\ SetGraph(_build_graph(migrations))
    /\ ret' = Ret("evaluate_graph", <<>>, evaluate_graph(_build_graph(migrations)), "none")
    /\ UNCHANGED <<migrations, weights, report, git>>

NextLint ==
    \/ AddMigrationFile
    \/ RunLint
    \/ Evaluate
    \/ EvaluateGraph

SpecLint == Init /\ [][NextLint]_vars

\* ------------------------------------------------------ the risk scorer

\* a scorer is constructed, with or without weights of its own
InitScorer ==
    /\ nodes = {}
    /\ forward = <<>>
    /\ reverse = [i \in Ids |-> {}]
    /\ migrations = <<>>
    /\ \E custom \in CustomWeights : weights = RiskScorer(custom).weights
    /\ report = <<>>
    /\ git = DefaultGit
    /\ ret = Ret("init", <<>>, <<>>, "none")

SetScorer(sc) ==
    /\ weights' = sc.weights
    /\ report' = sc.report
    /\ UNCHANGED <<nodes, forward, reverse, migrations, git>>

ScorerQuery(op, args, val) ==
    /\ ret' = Ret(op, args, val, "none")
    /\ UNCHANGED <<nodes, forward, reverse, migrations, weights, report, git>>

AddFinding ==
    \E category \in Categories :
        /\ Len(report) < MaxFindings
        /\ SetScorer(add_finding(scorer, category))
        /\ ret' = Ret("add_finding", <<category>>, <<>>, "none")

Reset ==
    /\ SetScorer(reset(scorer))
    /\ ret' = Ret("reset", <<>>, <<>>, "none")

ExceedsThreshold ==
    \E threshold \in 0..MaxThreshold :
        ScorerQuery("exceeds_threshold", <<threshold>>, exceeds_threshold(scorer, threshold))

TotalScore == ScorerQuery("total_score", <<>>, total_score(report))

SeverityOfReport == ScorerQuery("severity", <<>>, severity(report))

FromScore ==
    \E score \in (-1..MaxScore) \cup {100} :
        ScorerQuery("from_score", <<score>>, from_score(score))

NextScorer ==
    \/ AddFinding
    \/ Reset
    \/ ExceedsThreshold
    \/ TotalScore
    \/ SeverityOfReport
    \/ FromScore

SpecScorer == InitScorer /\ [][NextScorer]_vars

\* ------------------------------------------------- the branch comparator

\* a comparator is constructed over a repository
InitCompare ==
    /\ nodes = {}
    /\ forward = <<>>
    /\ reverse = [i \in Ids |-> {}]
    /\ migrations = <<>>
    /\ weights = RiskScorer(<<>>).weights
    /\ report = <<>>
    /\ git \in GitStates
    /\ ret = Ret("init", <<>>, <<>>, "none")

Compare ==
    \E r \in {compare(git, TargetBranch)} :
        /\ git' = [git EXCEPT !.calls = r.calls]
        /\ ret' = Ret("compare", <<TargetBranch>>, r.val, r.raised)
        /\ UNCHANGED <<nodes, forward, reverse, migrations, weights, report>>

NextCompare == Compare

SpecCompare == InitCompare /\ [][NextCompare]_vars

\* a report is constructed
InitReport ==
    /\ nodes = {}
    /\ forward = <<>>
    /\ reverse = [i \in Ids |-> {}]
    /\ migrations = <<>>
    /\ weights = RiskScorer(<<>>).weights
    /\ report = <<>>
    /\ git = DefaultGit
    /\ \E r \in Reports : ret = Ret("ComparisonReport", <<>>, r, "none")

HasIssues ==
    /\ ret.op = "ComparisonReport"
    /\ ret' = Ret("has_issues", <<ret.val>>, has_issues(ret.val), "none")
    /\ UNCHANGED <<nodes, forward, reverse, migrations, weights, report, git>>

NextReport == HasIssues

SpecReport == InitReport /\ [][NextReport]_vars

\* ------------------------------------------------------ the non-null rule

Pieces ==
    {"ADD COLUMN age INTEGER", "NOT NULL", "DEFAULT 0", ";", "\n", "AddField",
     "null=False", "default=", "op.add_column", "nullable=False",
     "server_default=", "FILLER"}

\* the texts of a migration file of at most MaxPieces pieces
Texts == UNION {[1..n -> Pieces] : n \in 0..MaxPieces}

\* a record with some text has been discovered
InitNonNull ==
    /\ nodes = {}
    /\ forward = <<>>
    /\ reverse = [i \in Ids |-> {}]
    /\ \E sql_content \in Texts :
           migrations = <<[MigrationInfo(1, <<>>) EXCEPT !.sql_content = sql_content]>>
    /\ weights = RiskScorer(<<>>).weights
    /\ report = <<>>
    /\ git = DefaultGit
    /\ ret = Ret("init", <<>>, <<>>, "none")

NonNullEvaluate ==
    /\ ret' = Ret("NonNullRule.evaluate", <<migrations[1]>>,
                  NonNullRule_evaluate(migrations[1]), "none")
    /\ UNCHANGED <<nodes, forward, reverse, migrations, weights, report, git>>

NextNonNull == NonNullEvaluate

SpecNonNull == InitNonNull /\ [][NextNonNull]_vars

\* ------------------------------------------------------------ properties

\* the nodes that n reaches along one or more dependency edges
RECURSIVE ReachIn(_, _, _)
ReachIn(g, S, fuel) ==
    LET T == S \cup UNION {Get(g.forward, m) : m \in S}
    IN  IF fuel = 0 \/ T = S THEN S ELSE ReachIn(g, T, fuel - 1)

Reach(g, n) == ReachIn(g, Get(g.forward, n), MaxId)

HasCycle(g) == \E n \in g.nodes : n \in Reach(g, n)

\* s lists the set S in ascending order, each element once
IsSortedListOf(s, S) ==
    /\ Range(s) = S
    /\ \A i, j \in 1..Len(s) : i < j => s[i] < s[j]

\* the nodes no node depends on, and the nodes that depend on nothing, read
\* off the edge set
HeadSet(g) == {n \in g.nodes : ~\E m \in Ids : <<m, n>> \in Edges(g)}
RootSet(g) == {n \in g.nodes : ~\E d \in Ids : <<n, d>> \in Edges(g)}

\* C1: on an acyclic graph topological_sort returns a list that holds every
\* node exactly once and every node after all the nodes it depends on.
C1_TopologicalOrder ==
    (ret.op = "topological_sort" /\ ~HasCycle(self)) =>
        /\ ret.raised = "none"
        /\ Len(ret.val) = Cardinality(nodes)
        /\ Range(ret.val) = nodes
        /\ \A i, j \in 1..Len(ret.val) :
               <<ret.val[i], ret.val[j]>> \in Edges(self) => j < i

C1_Witness ==
    /\ ret.op = "topological_sort"
    /\ ~HasCycle(self)
    /\ Len(ret.val) = 3
    /\ Cardinality(Edges(self)) = 3

\* C2: on a graph with a cycle (a self-loop included) topological_sort fails
\* with the cycle error and detect_cycles returns at least one path, none empty.
C2_CycleReported ==
    HasCycle(self) =>
        /\ ret.op = "topological_sort" => ret.raised = "ValueError"
        /\ ret.op = "detect_cycles" =>
               /\ ret.raised = "none"
               /\ Len(ret.val.cycles) >= 1
               /\ \A i \in 1..Len(ret.val.cycles) : Len(ret.val.cycles[i]) >= 1

C2_Witness ==
    /\ ret.op = "detect_cycles"
    /\ \E n \in nodes : <<n, n>> \in Edges(self)
    /\ \A e \in Edges(self) : e[1] = e[2]
    /\ Len(ret.val.cycles) >= 1

\* C3: on an acyclic graph, also one where a node is reached along several
\* dependency paths, detect_cycles returns the empty list.
C3_NoFalseCycle ==
    (ret.op = "detect_cycles" /\ ~HasCycle(self)) =>
        (ret.raised = "none" /\ ret.val.cycles = <<>>)

C3_Witness ==
    /\ ret.op = "detect_cycles"
    /\ ~HasCycle(self)
    /\ \E a, b, c \in nodes :
           {<<a, b>>, <<a, c>>, <<c, b>>} \subseteq Edges(self)
    /\ ret.val.cycles = <<>>

\* C4: detect_multiple_heads returns the empty list exactly when the graph has
\* at most one head, and otherwise all the heads in ascending order.
C4_MultipleHeads ==
    ret.op = "detect_multiple_heads" =>
        /\ ret.val = <<>> <=> Cardinality(HeadSet(self)) <= 1
        /\ Cardinality(HeadSet(self)) > 1 => IsSortedListOf(ret.val, HeadSet(self))

\* edges b->a and c->a give [b, c]
C4_Witness ==
    /\ ret.op = "detect_multiple_heads"
    /\ Edges(self) = {<<2, 1>>, <<3, 1>>}
    /\ ret.val = <<2, 3>>

\* C5: when a record declares a dependency on an id that no record has,
\* the analysis of the graph built from the records reports a critical
\* missing-dependency issue whose nodes are the record id and the missing id.
C5_DanglingDetected ==
    ret.op = "run_check" =>
        \A i \in 1..Len(ret.val.migrations) :
            \A k \in 1..Len(ret.val.migrations[i].dependencies) :
                LET m   == ret.val.migrations[i]
                    dep == m.dependencies[k]
                IN  (\A j \in 1..Len(ret.val.migrations) :
                         ret.val.migrations[j].migration_id # dep)
                    => \E x \in 1..Len(ret.val.graph_issues) :
                           ret.val.graph_issues[x] =
                               GraphIssue("missing_dependency", "critical",
                                          <<m.migration_id, dep>>)

\* C6: the issues of analyze come in the order multiple-heads (at most one,
\* critical), cycles (one per detected cycle, critical), missing dependencies
\* (one each, critical), orphans (at most one, warning, listing all orphans).
KindRank(issue_type) ==
    CASE issue_type = "multiple_heads"     -> 1
      [] issue_type = "cycle"              -> 2
      [] issue_type = "missing_dependency" -> 3
      [] issue_type = "orphan"             -> 4

IssuesOfKind(issues, kind) == {i \in 1..Len(issues) : issues[i].issue_type = kind}

C6_IssueOrder ==
    ret.op = "analyze" =>
        LET issues == ret.val.issues
            orphanSet == {n \in nodes : \A e \in Edges(self) : n # e[1] /\ n # e[2]}
        IN  /\ \A i, j \in 1..Len(issues) :
                   i < j => KindRank(issues[i].issue_type) <= KindRank(issues[j].issue_type)
            /\ \A i \in 1..Len(issues) :
                   issues[i].severity =
                       IF issues[i].issue_type = "orphan" THEN "warning" ELSE "critical"
            /\ Cardinality(IssuesOfKind(issues, "multiple_heads")) <= 1
            /\ Cardinality(IssuesOfKind(issues, "cycle")) = Len(detect_cycles(self).cycles)
            /\ Cardinality(IssuesOfKind(issues, "missing_dependency"))
                   = Len(missing_dependencies(self))
            /\ Cardinality(IssuesOfKind(issues, "orphan")) <= 1
            /\ \A i \in IssuesOfKind(issues, "orphan") :
                   IsSortedListOf(issues[i].nodes, orphanSet)

C6_Witness ==
    /\ ret.op = "analyze"
    /\ Len(ret.val.issues) = 3
    /\ ret.val.issues[1].issue_type = "multiple_heads"
    /\ ret.val.issues[2].issue_type = "cycle"
    /\ ret.val.issues[3].issue_type = "orphan"

\* C7: analyze never fails: on every graph, cyclic ones and ones with
\* self-loops included, it comes to an end and returns its issue list.
C7_AnalyzeReturns ==
    ret.op = "analyze" => (ret.raised = "none" /\ ret.val.done)

C7_Witness ==
    /\ ret.op = "analyze"
    /\ \E n \in nodes : <<n, n>> \in Edges(self)
    /\ \E a, b \in nodes : a # b /\ {<<a, b>>, <<b, a>>} \subseteq Edges(self)
    /\ ret.raised = "none"
    /\ \E i \in 1..Len(ret.val.issues) : ret.val.issues[i].issue_type = "cycle"

\* C8: find_orphans returns, in ascending order, exactly the nodes that are
\* the endpoint of no edge.
C8_Orphans ==
    ret.op = "find_orphans" =>
        IsSortedListOf(ret.val,
                       {n \in nodes : \A e \in Edges(self) : n # e[1] /\ n # e[2]})

C8_Witness ==
    /\ ret.op = "find_orphans"
    /\ Edges(self) # {}
    /\ ret.val # <<>>

\* C9: find_heads returns, sorted, the nodes no node depends on and find_roots,
\* sorted, the nodes that depend on nothing; on a single linear chain each
\* returns one node, the last and the first of the chain.
Chains ==
    {c \in UNION {[1..k -> Ids] : k \in 1..MaxId} :
        /\ \A i, j \in 1..Len(c) : c[i] = c[j] => i = j
        /\ nodes = Range(c)
        /\ Edges(self) = {<<c[i + 1], c[i]>> : i \in 1..(Len(c) - 1)}}

C9_HeadsAndRoots ==
    /\ ret.op = "find_heads" =>
           /\ IsSortedListOf(ret.val, HeadSet(self))
           /\ \A c \in Chains : ret.val = <<c[Len(c)]>>
    /\ ret.op = "find_roots" =>
           /\ IsSortedListOf(ret.val, RootSet(self))
           /\ \A c \in Chains : ret.val = <<c[1]>>

C9_Witness ==
    /\ ret.op = "find_heads"
    /\ \E c \in Chains : Len(c) = 3 /\ ret.val = <<c[3]>>

\* C10: a second add_node or add_edge call with the arguments of the call
\* before it leaves the node set and both edge dicts as they were.
C10_Idempotent ==
    [][(/\ ret.op \in {"add_node", "add_edge"}
        /\ ret'.op = ret.op
        /\ ret'.args = ret.args)
       => (nodes' = nodes /\ forward' = forward /\ reverse' = reverse)]_vars

C10_Witness ==
    /\ ret.op = "add_edge"
    /\ ret.args = <<2, 1>>
    /\ <<2, 1>> \in Edges(self)
    /\ Cardinality(Edges(self)) > 1

\* C11: the severity of a score is LOW up to 3, MEDIUM from 4 to 6, HIGH from
\* 7 to 9 and CRITICAL from 10 on, for every integer score.
C11_SeverityBands ==
    ret.op = "from_score" =>
        LET s == ret.args[1]
        IN  /\ ret.val \in {"LOW", "MEDIUM", "HIGH", "CRITICAL"}
            /\ ret.val = "LOW" <=> s <= 3
            /\ ret.val = "MEDIUM" <=> (4 <= s /\ s <= 6)
            /\ ret.val = "HIGH" <=> (7 <= s /\ s <= 9)
            /\ ret.val = "CRITICAL" <=> s >= 10

C11_Witness ==
    /\ ret.op = "from_score"
    /\ ret.args = <<4>>
    /\ ret.val = "MEDIUM"

\* the score the weight table w gives category c, and the sum over a report
TableScore(w, c) == IF c \in DOMAIN w THEN w[c] ELSE 5

RECURSIVE TableTotal(_, _)
TableTotal(w, findings) ==
    IF findings = <<>> THEN 0
    ELSE TableScore(w, Head(findings).category) + TableTotal(w, Tail(findings))

\* C12: every add_finding call appends one finding whose score is the weight
\* table's entry for its category, or 5 for a category the table lacks; the
\* total score is the sum of the findings' scores; exceeds_threshold(n) is
\* true exactly when the total is greater than n.
C12_FindingsAndTotal ==
    [][/\ ret'.op = "add_finding" =>
              report' = Append(report, [category |-> ret'.args[1],
                                        score    |-> TableScore(weights, ret'.args[1])])
       /\ ret'.op = "total_score" => ret'.val = TableTotal(weights', report')
       /\ ret'.op = "exceeds_threshold" =>
              (ret'.val <=> TableTotal(weights', report') > ret'.args[1])]_vars

\* exceeds_threshold(n) with the total equal to n, one finding of a category
\* the table lacks
C12_Witness ==
    /\ ret.op = "exceeds_threshold"
    /\ ret.val = FALSE
    /\ Len(report) = 2
    /\ total_score(report) = ret.args[1]
    /\ \E i \in 1..Len(report) : report[i].category \notin DOMAIN weights

\* C13: reset leaves the scorer without findings and with total score 0, and
\* leaves its weight table as it was, so that a finding added after reset
\* gets the score it would have got before.
C13_ResetKeepsWeights ==
    [][ret'.op = "reset" =>
           /\ report' = <<>>
           /\ total_score(report') = 0
           /\ weights' = weights
           /\ \A c \in Categories :
                  add_finding(scorer', c).report[1].score
                      = add_finding(scorer, c).report[Len(report) + 1].score]_vars

C13_Witness ==
    /\ ret.op = "reset"
    /\ report = <<>>
    /\ "custom_issue" \in DOMAIN weights
    /\ weights["drop_table"] # DEFAULT_WEIGHTS["drop_table"]

\* the report or error the last compare came to
CompareReturned == ret.op = "compare" /\ ret.raised = "none"

\* C14: when merge_base returns the empty string, compare raises nothing and
\* returns a report with one suggestion, is_behind false, commits_behind 0
\* and empty current_only, target_only and parallel_migrations lists, so
\* that has_issues is false; commits_between and diff_files are not invoked.
C14_NoMergeBase ==
    (/\ ret.op = "compare"
     /\ "merge_base" \in Range(git.calls)
     /\ merge_base(git, CurrentBranch, TargetBranch) = Returned(""))
    => /\ ret.raised = "none"
       /\ Len(ret.val.suggestions) = 1
       /\ ret.val.is_behind = FALSE
       /\ ret.val.commits_behind = 0
       /\ ret.val.current_only = <<>>
       /\ ret.val.target_only = <<>>
       /\ ret.val.parallel_migrations = <<>>
       /\ has_issues(ret.val) = FALSE
       /\ "commits_between" \notin Range(git.calls)
       /\ "diff_files" \notin Range(git.calls)

C14_Witness ==
    /\ CompareReturned
    /\ git.merge_base.outcome = "nonzero"
    /\ git.calls = <<"fetch", "current_branch", "merge_base">>
    /\ Len(ret.val.suggestions) = 1

\* a path has the segment name: the token name stands between separators or
\* the ends of the path
Separators == {"/", "\\"}

HasSegment(path, name) ==
    \E i \in 1..Len(path) :
        /\ path[i] = name
        /\ i = 1 \/ path[i - 1] \in Separators
        /\ i = Len(path) \/ path[i + 1] \in Separators

MigrationRelated(f) ==
    /\ f \in Paths
    /\ PathTable[f][Len(PathTable[f])] = ".py"
    /\ HasSegment(PathTable[f], "migrations") \/ HasSegment(PathTable[f], "versions")

StrictlyAscending(s) == \A i, j \in 1..Len(s) : i < j => s[i] < s[j]

\* C15: the current_only, target_only and parallel_migrations lists of the
\* report compare returns are pairwise disjoint, each sorted ascending
\* without duplicates, and hold only migration-related paths; parallel is
\* the intersection of the two branches' migration files and the three lists
\* together are the union of the two branches' migration files.
C15_Partition ==
    (CompareReturned /\ "diff_files" \in Range(git.calls)) =>
        LET cur == {f \in Range(diff_files(git, "abc123", CurrentBranch).val) :
                        MigrationRelated(f)}
            tgt == {f \in Range(diff_files(git, "abc123", TargetBranch).val) :
                        MigrationRelated(f)}
            co == ret.val.current_only
            to == ret.val.target_only
            pa == ret.val.parallel_migrations
        IN  /\ Range(co) \cap Range(to) = {}
            /\ Range(co) \cap Range(pa) = {}
            /\ Range(to) \cap Range(pa) = {}
            /\ StrictlyAscending(co) /\ StrictlyAscending(to) /\ StrictlyAscending(pa)
            /\ \A f \in Range(co) \cup Range(to) \cup Range(pa) : MigrationRelated(f)
            /\ Range(pa) = cur \cap tgt
            /\ Range(co) \cup Range(to) \cup Range(pa) = cur \cup tgt

\* a migration on both branches, one on the current branch only, and a
\* python file outside the migration directories in the target's diff
C15_Witness ==
    /\ CompareReturned
    /\ ret.val.parallel_migrations # <<>>
    /\ ret.val.current_only # <<>>
    /\ \E i \in 1..Len(git.diff_target.stdout) :
           /\ git.diff_target.stdout[i] # Blank
           /\ ~MigrationRelated(git.diff_target.stdout[i])

\* C16: has_issues is true exactly when the branch is behind, or the
\* parallel_migrations list is not empty, or the target_only list is not
\* empty; a current_only list that is not empty does not make it true.
C16_HasIssues ==
    ret.op = "has_issues" =>
        LET r == ret.args[1]
        IN  /\ ret.val = TRUE <=>
                   (r.is_behind \/ Len(r.parallel_migrations) > 0 \/ Len(r.target_only) > 0)
            /\ (/\ ~r.is_behind
                /\ Len(r.parallel_migrations) = 0
                /\ Len(r.target_only) = 0
                /\ Len(r.current_only) > 0) => ret.val = FALSE

C16_Witness ==
    /\ ret.op = "has_issues"
    /\ ret.args[1].current_only # <<>>
    /\ ~ret.args[1].is_behind
    /\ ret.args[1].target_only = <<>>
    /\ ret.args[1].parallel_migrations = <<>>
    /\ ret.val = FALSE

\* the kinds among ks, in their order, whose condition holds
RECURSIVE KindsHolding(_, _)
KindsHolding(ks, conds) ==
    IF ks = <<>> THEN <<>>
    ELSE (IF Head(conds) THEN <<Head(ks)>> ELSE <<>>)
             \o KindsHolding(Tail(ks), Tail(conds))

\* C17: with a merge base, the suggestions of compare are, in this order: one
\* if the branch is behind, one if target_only is not empty, one if
\* parallel_migrations is not empty, one if both current_only and target_only
\* are not empty; there are as many suggestions as conditions that hold.
C17_Suggestions ==
    (CompareReturned /\ "commits_between" \in Range(git.calls)) =>
        LET r == ret.val
            conds == <<r.is_behind,
                       r.target_only # <<>>,
                       r.parallel_migrations # <<>>,
                       r.current_only # <<>> /\ r.target_only # <<>> >>
            kinds == <<"behind", "target_only", "parallel", "merge_migration">>
        IN  /\ [i \in 1..Len(r.suggestions) |-> r.suggestions[i].kind]
                   = KindsHolding(kinds, conds)
            /\ Len(r.suggestions) = Cardinality({i \in 1..Len(conds) : conds[i]})

C17_Witness ==
    /\ CompareReturned
    /\ Len(ret.val.suggestions) = Len(<<"behind", "target_only", "parallel", "merge_migration">>)

\* the results of the commands the last compare ran, in the order it runs them
RanResults ==
    SubSeq(<<git.fetch, git.rev_parse, git.merge_base, git.rev_list,
             git.diff_current, git.diff_target>>, 1, Len(git.calls))

\* C18: when a command that compare runs fails (another exit code than 0, a
\* timeout, no git tool), but for merge-base finding no common ancestor,
\* compare raises a GitError with the command and the exit code: it returns
\* no report.
C18_FailuresSurface ==
    (/\ ret.op = "compare"
     /\ \E i \in 1..Len(git.calls) :
            /\ RanResults[i].outcome # "ok"
            /\ ~(git.calls[i] = "merge_base" /\ RanResults[i].outcome = "nonzero"))
    => ret.raised = "GitError"

\* C19: when run_compare raises inside run_ready, run_ready raises nothing
\* and returns a result without a comparison, with the check and lint results
\* of the discovered migrations and with no branch_behind_target finding in
\* its risk report.
C19_CompareFailureContained ==
    [][(ret'.op = "run_ready" /\ RunReady /\ run_compare(git).raised # "none") =>
           /\ ret'.raised = "none"
           /\ ret'.val.compare = <<>>
           /\ ret'.val.check.migrations = migrations
           /\ ret'.val.check = run_check(migrations)
           /\ ret'.val.lint = run_lint(migrations)
           /\ \A i \in 1..Len(ret'.val.risk) :
                  ret'.val.risk[i].category # "branch_behind_target"]_vars

\* git is not installed; the run reports graph issues and lint violations
C19_Witness ==
    /\ ret.op = "run_ready"
    /\ ret.raised = "none"
    /\ git.fetch.outcome = "notfound"
    /\ git.calls = <<"fetch">>
    /\ ret.val.compare = <<>>
    /\ Len(ret.val.check.migrations) = MaxRecords
    /\ ret.val.check.graph_issues # <<>>
    /\ ret.val.lint.violations # <<>>
    /\ ret.val.risk # <<>>

\* C20: the multiple-heads rule returns no violation for a record, whatever
\* the record; for a graph it returns one violation of CRITICAL severity when
\* the graph has more than one head and none when it has at most one.
C20_MultipleHeadsRule ==
    /\ ret.op = "evaluate" => ret.val = <<>>
    /\ ret.op = "evaluate_graph" =>
           IF Cardinality(HeadSet(self)) > 1
           THEN Len(ret.val) = 1 /\ ret.val[1].severity = "CRITICAL"
           ELSE ret.val = <<>>

C20_Witness ==
    /\ ret.op = "evaluate_graph"
    /\ Cardinality(HeadSet(self)) > 1
    /\ Len(ret.val) = 1
    /\ \E i \in 1..Len(migrations) : migrations[i].sql_content # <<>>

\* the nodes of g outside emitted whose dependencies are all in emitted
ReadyNodes(g, emitted) ==
    {n \in g.nodes \ emitted : Get(g.forward, n) \subseteq emitted}

\* C24: at every step topological_sort emits the smallest of the nodes not
\* yet emitted whose dependencies have all been emitted.
C24_SmallestReadyFirst ==
    (ret.op = "topological_sort" /\ ret.raised = "none") =>
        \A i \in 1..Len(ret.val) :
            LET emitted == {ret.val[k] : k \in 1..(i - 1)}
            IN  /\ ret.val[i] \in ReadyNodes(self, emitted)
                /\ \A n \in ReadyNodes(self, emitted) : ret.val[i] <= n

\* the forward edge a path of detect_cycles was reported for: the path is
\* the reversed [dep, node, parents...], so it ends with node, dep
BackEdge(path) == <<path[Len(path) - 1], path[Len(path)]>>

\* C25: within one detect_cycles call every forward edge (node, dep)
\* contributes at most one path to the result.
C25_OnePathPerBackEdge ==
    (ret.op = "detect_cycles" /\ ret.raised = "none") =>
        \A i, j \in 1..Len(ret.val.cycles) :
            i # j => BackEdge(ret.val.cycles[i]) # BackEdge(ret.val.cycles[j])

\* C26: every path [v1, ..., vk] detect_cycles returns is a cycle of the
\* graph: vi depends on v(i+1) for every i < k, and vk depends on v1.
C26_GenuineCycle ==
    (ret.op = "detect_cycles" /\ ret.raised = "none") =>
        \A i \in 1..Len(ret.val.cycles) :
            LET v == ret.val.cycles[i]
            IN  /\ \A k \in 1..(Len(v) - 1) : <<v[k], v[k + 1]>> \in Edges(self)
                /\ <<v[Len(v)], v[1]>> \in Edges(self)

QueryOps ==
    {"find_heads", "find_roots", "find_orphans", "detect_multiple_heads",
     "detect_cycles", "missing_dependencies", "topological_sort", "analyze"}

\* C27: the queries find_heads, find_roots, find_orphans,
\* detect_multiple_heads, detect_cycles, missing_dependencies,
\* topological_sort (also when it raises the cycle error) and analyze leave
\* the node set and the forward and reverse edge sets as they were, so that
\* every query answers after the call what it answered before.
C27_QueriesPure ==
    [][ret'.op \in QueryOps =>
           /\ nodes' = nodes
           /\ forward' = forward
           /\ reverse' = reverse
           /\ find_heads(self') = find_heads(self)
           /\ find_roots(self') = find_roots(self)
           /\ find_orphans(self') = find_orphans(self)
           /\ missing_dependencies(self') = missing_dependencies(self)
           /\ topological_sort(self') = topological_sort(self)
           /\ analyze(self') = analyze(self)]_vars

\* topological_sort has raised the cycle error on a graph with edges
C27_Witness ==
    /\ ret.op = "topological_sort"
    /\ ret.raised = "ValueError"
    /\ Cardinality(Edges(self)) = MaxEdges
    /\ Cardinality(nodes) = MaxId

\* the graphs with the node and edge sets of g: the items of the forward
\* dict in every order that a sequence of add_edge calls leaves them in
SameSets(g) ==
    {[g EXCEPT !.forward = [i \in 1..Len(g.forward) |-> g.forward[p[i]]]] :
         p \in Permutations(1..Len(g.forward))}

\* C28: two graphs with the same node set and the same edge set, whatever
\* the order of the add_node and add_edge calls that built them, return the
\* same lists from find_heads, find_roots, find_orphans, detect_cycles,
\* topological_sort and analyze.
C28_Deterministic ==
    \A g2 \in SameSets(self) :
        /\ ret.op = "find_heads" => ret.val = find_heads(g2)
        /\ ret.op = "find_roots" => ret.val = find_roots(g2)
        /\ ret.op = "find_orphans" => ret.val = find_orphans(g2)
        /\ ret.op = "detect_cycles" =>
               ret.val.cycles = detect_cycles(g2).cycles /\ ret.raised = detect_cycles(g2).raised
        /\ ret.op = "topological_sort" =>
               ret.val = topological_sort(g2).result
                   /\ ret.raised = topological_sort(g2).raised
        /\ ret.op = "analyze" =>
               ret.val.issues = analyze(g2).issues /\ ret.raised = analyze(g2).raised

\* cycles were reported on a graph whose edges were not added in key order
C28_Witness ==
    /\ ret.op = "analyze"
    /\ Len(forward) = MaxId
    /\ forward[1][1] > forward[2][1]
    /\ \E i \in 1..Len(ret.val.issues) : ret.val.issues[i].issue_type = "cycle"

\* C29: forward and reverse adjacency are inverse to each other (d is in
\* forward[n] exactly when n is in reverse[d]), both ends of every edge are
\* nodes, and so no forward edge leads to an id outside the node set.
C29_AdjacencyInverse ==
    /\ \A n, d \in Ids : d \in Get(forward, n) <=> n \in reverse[d]
    /\ \A n, d \in Ids : d \in Get(forward, n) => (n \in nodes /\ d \in nodes)
    /\ \A i \in 1..Len(forward) : forward[i][2] \subseteq nodes
    /\ ret.op = "missing_dependencies" => ret.val = <<>>

C29_Witness ==
    /\ ret.op = "missing_dependencies"
    /\ Cardinality(Edges(self)) = MaxEdges
    /\ \E n \in nodes : <<n, n>> \in Edges(self)

\* C23: the exit code of the protect gate is 2 when the total score of the
\* risk report is greater than the threshold; otherwise it is the greater of
\* the check exit code (2 with a critical graph issue, else 1 with a warning
\* one, else 0) and the lint exit code (2 with a CRITICAL violation, else 1
\* with an ERROR one, else 0).
C23_ProtectExitCode ==
    (ret.op = "run_protect" /\ ret.raised = "none") =>
        LET r == ret.val.result
            thr == IF ret.args[1] = <<>> THEN 7 ELSE ret.args[1][1]
            total == TableTotal(DEFAULT_WEIGHTS, r.risk)
            issues == {r.check.graph_issues[i].severity : i \in 1..Len(r.check.graph_issues)}
            viols == {r.lint.violations[i].severity : i \in 1..Len(r.lint.violations)}
            checkCode == IF "critical" \in issues THEN 2
                         ELSE IF "warning" \in issues THEN 1 ELSE 0
            lintCode == IF "CRITICAL" \in viols THEN 2
                        ELSE IF "ERROR" \in viols THEN 1 ELSE 0
        IN  /\ total > thr => ret.val.exit_code = 2
            /\ total <= thr =>
                   /\ ret.val.exit_code >= checkCode
                   /\ ret.val.exit_code >= lintCode
                   /\ ret.val.exit_code \in {checkCode, lintCode}

\* the threshold is exceeded while check and lint alone would end with 0
C23_Witness ==
    /\ ret.op = "run_protect"
    /\ ret.val.exceeds_threshold
    /\ ret.val.exit_code = 2
    /\ ret.val.result.check.graph_issues = <<>>
    /\ \A i \in 1..Len(ret.val.result.lint.violations) :
           ret.val.result.lint.violations[i].severity = "WARNING"

\* the risk category of a rule
CategoryOf(rule_id) ==
    CASE rule_id = "drop-table"               -> "drop_table"
      [] rule_id = "drop-column"              -> "drop_column"
      [] rule_id = "non-null-without-default" -> "non_null_without_default"
      [] rule_id = "type-change"              -> "risky_type_change"
      [] rule_id = "multiple-heads"           -> "multiple_heads"

\* C30: the risk report of run_ready holds, in this order, one finding for
\* each lint violation, of the category of its rule, one multiple_heads
\* finding for each multiple-heads graph issue, and one branch_behind_target
\* finding if the comparison returned a report and the branch is behind; a
\* graph with more than one head is so scored twice, 18 with the default
\* weights.
C30_RiskReportOrder ==
    (ret.op = "run_ready" /\ ret.raised = "none") =>
        LET r == ret.val
            heads == {i \in 1..Len(r.check.graph_issues) :
                          r.check.graph_issues[i].issue_type = "multiple_heads"}
            expected ==
                [i \in 1..Len(r.lint.violations) |-> CategoryOf(r.lint.violations[i].rule_id)]
                \o [i \in 1..Cardinality(heads) |-> "multiple_heads"]
                \o (IF r.compare # <<>> /\ r.compare[1].is_behind
                    THEN <<"branch_behind_target">> ELSE <<>>)
            headFindings == {i \in 1..Len(r.risk) : r.risk[i].category = "multiple_heads"}
        IN  /\ [i \in 1..Len(r.risk) |-> r.risk[i].category] = expected
            /\ \A i \in 1..Len(r.risk) : r.risk[i].score = DEFAULT_WEIGHTS[r.risk[i].category]
            /\ Len(r.check.heads) > 1 =>
                   /\ Cardinality(headFindings) = 2
                   /\ TableTotal(DEFAULT_WEIGHTS, SelectSeq(r.risk,
                          LAMBDA f : f.category = "multiple_heads")) = 18

\* two heads, a violation of another rule and a branch that is behind
C30_Witness ==
    /\ ret.op = "run_ready"
    /\ Len(ret.val.check.heads) > 1
    /\ ret.val.compare # <<>>
    /\ ret.val.risk[Len(ret.val.risk)].category = "branch_behind_target"
    /\ ret.val.risk[1].category = "drop_table"

\* ---- the non-null rule's windows and statements

\* the violations of the returned list that carry the message
WithMessage(violations, message) ==
    SelectSeq(violations, LAMBDA v : v.message = message)

\* the call sites of the text whose 300-character window holds one of the
\* disallow-null signals and none of the default signals
BareSites(content, call, disallow, defaults) ==
    {i \in 1..Len(content) :
        /\ content[i] = call
        /\ \E j \in i..Len(content) :
               /\ content[j] \in disallow
               /\ Offset(content, j) + Width(content[j]) - Offset(content, i) <= 300
        /\ ~\E j \in i..Len(content) :
               /\ content[j] \in defaults
               /\ Offset(content, j) + Width(content[j]) - Offset(content, i) <= 300}

\* C21: for the Django AddField form and the Alembic op.add_column form, the
\* rule flags a call site only when the 300 characters from the call site
\* hold a disallow-null signal and no default; so the violations of each form
\* are no more than the call sites of that form with such a window, and a
\* call site whose window supplies a default is never flagged.
C21_FlaggedOnlyWithoutDefault ==
    ret.op = "NonNullRule.evaluate" =>
        LET content == ret.args[1].sql_content
        IN  /\ Len(WithMessage(ret.val, "Django AddField with null=False and no default value"))
                   <= Cardinality(BareSites(content, "AddField", {"null=False"},
                                            {"default="}))
            /\ Len(WithMessage(ret.val, "Alembic op.add_column() with nullable=False"))
                   <= Cardinality(BareSites(content, "op.add_column", {"nullable=False"},
                                            {"default=", "server_default="}))

\* the text is one statement ADD COLUMN <name> <type> ... NOT NULL ... ;
OneAddColumnStatement(content) ==
    /\ Len(content) >= 3
    /\ content[1] = "ADD COLUMN age INTEGER"
    /\ content[Len(content)] = ";"
    /\ \A k \in 2..(Len(content) - 1) : content[k] \in {"NOT NULL", "DEFAULT 0", "\n"}
    /\ \E k \in 2..(Len(content) - 1) : content[k] = "NOT NULL"

\* C22: for a raw-SQL statement ADD COLUMN <name> <type> ... NOT NULL ... ;
\* the rule returns at least one violation when the statement has no DEFAULT
\* clause and no violation when the statement has a DEFAULT clause.
C22_SqlDefaultClause ==
    (ret.op = "NonNullRule.evaluate" /\ OneAddColumnStatement(ret.args[1].sql_content)) =>
        LET content == ret.args[1].sql_content
        IN  IF \E k \in 1..Len(content) : content[k] = "DEFAULT 0"
            THEN ret.val = <<>>
            ELSE Len(ret.val) >= 1

====
